---- MODULE Spec2Model ----
(***************************************************************************)
(* The API client of the Cash Point Pay console (src/main.py): the         *)
(* endpoint registry Config.ENDPOINTS, the client methods of               *)
(* CashPointPayAPI, and the response normaliser handle_response.           *)
(*                                                                         *)
(* One invocation of a client method is two steps: the method builds its   *)
(* request and hands it to the connection (Call), then blocks until the    *)
(* connection either delivers a response, which handle_response turns      *)
(* into the method's result (Respond), or fails (TransportFailure).        *)
(*                                                                         *)
(* The pages of class UI call the client from render passes: a pass runs   *)
(* one page function (StartPass), makes its calls one after the other      *)
(* (Proceed) and updates st.session_state after each call that returned.   *)
(* Spec is the client under any caller, UISpec the client under the pages. *)
(*                                                                         *)
(* The user-visible strings of the source are Japanese; the model carries  *)
(* them as ASCII renderings, named where they are defined.                 *)
(***************************************************************************)
EXTENDS Integers, Sequences, FiniteSets, TLC

VARIABLES
    base_url,   \* CashPointPayAPI.base_url
    pc,         \* "idle": no method is running; "waiting": a method blocks in session.get/post
    cur,        \* the invocation that runs, or ran last
    wire,       \* the HTTP requests the invocation has handed to the connection, in order
    resp,       \* the response body the connection delivered to the invocation
    ret,        \* how the invocation ended: nothing yet, a returned value, or an exception
    notes,      \* the st.error notifications the invocation pushed, in order
    jar,        \* the cookies held by self.session of the client
    login_cookies, \* the cookies the server set in answer to a login of this client
    login_issued,  \* the cookies the server set in answer to the login page's last successful login
    obs,        \* what the device answered to the reads made since it last changed
    session_state, \* st.session_state
    ui,         \* the render pass that runs, or ran last
    pass_log    \* the methods whose request the pass has sent, in order

vars == <<base_url, pc, cur, wire, resp, ret, notes,
          jar, login_cookies, login_issued, obs, session_state, ui, pass_log>>

----------------------------------------------------------------------------
(* JSON values, as json.loads / response.json() produce them and as        *)
(* json=payload serialises them: a tag and the Python value.               *)

JStr(s)  == [t |-> "str", v |-> s]
JNum(n)  == [t |-> "num", v |-> n]
JBool(b) == [t |-> "bool", v |-> b]
JNull    == [t |-> "null", v |-> 0]
JList(q) == [t |-> "list", v |-> q]
JObj(f)  == [t |-> "obj", v |-> f]

(* Python's truth value of a JSON value: what `not x` tests. *)
Truthy(x) ==
    CASE x.t = "bool" -> x.v
      [] x.t = "num"  -> x.v # 0
      [] x.t = "str"  -> x.v # ""
      [] x.t = "null" -> FALSE
      [] x.t = "list" -> Len(x.v) > 0
      [] x.t = "obj"  -> DOMAIN x.v # {}

(* dict.get(key, default) on a JSON object. *)
DictGet(d, key, default) ==
    IF key \in DOMAIN d.v THEN d.v[key] ELSE default

----------------------------------------------------------------------------
(* Config *)

DEFAULT_API_BASE_URL == "http://localhost:8080"

ENDPOINTS ==
    [ login |-> "/api/login",
      logout |-> "/api/logOut",
      pay |-> "/api/pay",
      payment |-> "/api/payment",
      pos_pay |-> "/api/POS/pay",
      pos_payment |-> "/api/POS/payment",
      query |-> "/api/query",
      machine_info |-> "/api/machineInfo",
      door_control |-> "/api/doorControl",
      cash_info |-> "/api/cashInfo",
      cash_detail_info |-> "/api/cashDetailInfo",
      refill |-> "/api/refill",
      refill_end |-> "/api/refillend",
      refund |-> "/api/refund",
      withdraw |-> "/api/withdraw",
      cancel |-> "/api/cancel",
      payment_stop |-> "/api/paymentStop",
      payment_continue |-> "/api/paymentContinue",
      sensor_status |-> "/api/sensorStatus",
      cassette_status |-> "/api/cassetteStatus",
      get_status |-> "/api/getStatus",
      reset_status |-> "/api/resetStatus",
      get_error_message |-> "/api/getErrorMessage",
      pd_calibration |-> "/api/pdCalibration",
      reset_cassette |-> "/api/resetCassette",
      reset_coin_box |-> "/api/resetCoinBox",
      drum_to_cassette |-> "/api/drumToCassette",
      self_test |-> "/api/selfTest",
      clear_hopper |-> "/api/clearHopper",
      banknote_denomination_setup_get |-> "/api/banknoteDenominationSetup",
      banknote_denomination_setup_post |-> "/api/banknoteDenominationSetup",
      coin_tube_setup_get |-> "/api/coinTubeSetup",
      coin_tube_setup_post |-> "/api/coinTubeSetup",
      set_device_setting |-> "/api/setDeviceSetting",
      setup_setting |-> "/api/setupSetting" ]

(* Config.ERROR_CODES: code -> message (the messages in English). *)
ERROR_CODES ==
    (400 :> "account or password is wrong") @@
    (401 :> "not logged in yet") @@
    (500 :> "an unknown error occurred") @@
    (501 :> "invalid format") @@
    (502 :> "please change to the home page") @@
    (503 :> "UUID does not exist") @@
    (504 :> "this API is not Recharge") @@
    (505 :> "motor is running, try again later") @@
    (506 :> "insufficient stock") @@
    (507 :> "no transaction in progress") @@
    (508 :> "banknote module not ready, try again later") @@
    (509 :> "drumId>=1 and drumId<=4 and pcs >= 1") @@
    (510 :> "drum holds 0 banknotes, not enough to complete the action") @@
    (511 :> "configuration in progress, cancel the configuration") @@
    (512 :> "transaction in progress, cancel or stop the transaction") @@
    (513 :> "amount must be greater than 0") @@
    (514 :> "coin module not ready, try again later") @@
    (515 :> "another API is currently in use")

----------------------------------------------------------------------------
(* The values callers pass to the client methods. *)

MaxDrumId == 5      \* drum_id is drawn from 0..MaxDrumId (the device accepts 1..4)
MaxPcs == 2         \* pcs is drawn from 0..MaxPcs (the device accepts 1 and more)
MaxItems == 2       \* item, withdraw and settings lists hold 0..MaxItems entries

NoArg == [t |-> "none", v |-> 0]    \* the method has no such parameter, or the caller omits it

Item == JObj([name |-> JStr("tea"), pcs |-> JStr("1"), price |-> JStr("500")])
WithdrawItem == JObj([iscoin |-> JBool(FALSE), pcs |-> JNum(1), deno |-> JNum(100)])
Setting == JObj([denomination |-> JNum(1000), maxPcs |-> JNum(30)])

ListsOf(x) == {JList([i \in 1..n |-> x]) : n \in 0..MaxItems}

Accounts == {JStr("op1"), JStr("")}
Passwords == {JStr("secret"), JStr("")}
Amounts == {JStr("500"), JStr("0")}
PosRefs == {JStr("POS-1"), JStr("")}
Uuids == {JStr("abc-123"), JStr("")}
DrumNames == {JStr("Drum1")}
ErrorCodeArgs == {JStr("509"), JStr("x")}
DrumIds == {JNum(n) : n \in 0..MaxDrumId}
PcsArgs == {JNum(n) : n \in 0..MaxPcs}
HopperIds == {JNum(-1), JNum(1)}
DeviceIds == {JStr("dev-1")}
DeviceUrls == {JStr("http://pos.example/cb")}
SettingNames == {JStr("hasCoinPocketSensor")}
SettingValues == {JNum(0), JNum(1)}
Timeouts == {JNum(1), JNum(60)}

(* door_settings: the four doors of the door-control tab, or a map that   *)
(* already holds an "Open Timeout" key, or no door at all.                 *)
DoorMaps ==
    { JObj(("Note Security Door" :> JStr("open")) @@ ("Note Drum Door" :> JStr("close")) @@
           ("Note Cassette Door" :> JStr("close")) @@ ("Coin Security Door" :> JStr("open"))),
      JObj(("Note Drum Door" :> JStr("open")) @@ ("Open Timeout" :> JNum(99))),
      JObj(<<>>) }

----------------------------------------------------------------------------
(* CashPointPayAPI: the client methods *)

Methods ==
    { "login", "logout", "pay", "payment", "pos_pay", "pos_payment", "query",
      "get_machine_info", "door_control", "get_cash_info", "get_cash_detail_info",
      "refill", "refill_end", "refund", "withdraw", "cancel", "payment_stop",
      "payment_continue", "get_sensor_status", "get_cassette_status", "get_status",
      "reset_status", "get_error_message", "pd_calibration", "reset_cassette",
      "reset_coin_box", "drum_to_cassette", "self_test", "clear_hopper",
      "get_banknote_denomination_setup", "set_banknote_denomination_setup",
      "get_coin_tube_setup", "set_coin_tube_setup", "set_device_setting",
      "setup_setting" }

(* The values a caller can pass as the method's first and second parameter. *)
FirstArgs(m) ==
    CASE m = "login" -> Accounts
      [] m \in {"pay", "pos_pay"} -> ListsOf(Item)
      [] m \in {"payment", "pos_payment", "refund"} -> Amounts
      [] m = "query" -> Uuids
      [] m = "door_control" -> DoorMaps
      [] m = "get_cash_detail_info" -> DrumNames
      [] m = "withdraw" -> ListsOf(WithdrawItem)
      [] m = "get_error_message" -> ErrorCodeArgs
      [] m = "drum_to_cassette" -> DrumIds
      [] m = "clear_hopper" -> HopperIds
      [] m \in {"set_banknote_denomination_setup", "set_coin_tube_setup"} -> ListsOf(Setting)
      [] m = "set_device_setting" -> DeviceIds
      [] m = "setup_setting" -> SettingNames
      [] OTHER -> {NoArg}

SecondArgs(m) ==
    CASE m = "login" -> Passwords
      [] m \in {"pos_pay", "pos_payment"} -> PosRefs
      [] m = "door_control" -> Timeouts \cup {NoArg}
      [] m = "drum_to_cassette" -> PcsArgs
      [] m = "set_device_setting" -> DeviceUrls
      [] m = "setup_setting" -> SettingValues
      [] OTHER -> {NoArg}

(* The key of Config.ENDPOINTS each method looks up. *)
EndpointKey(m) ==
    CASE m = "get_machine_info" -> "machine_info"
      [] m = "get_cash_info" -> "cash_info"
      [] m = "get_cash_detail_info" -> "cash_detail_info"
      [] m = "get_sensor_status" -> "sensor_status"
      [] m = "get_cassette_status" -> "cassette_status"
      [] m = "get_banknote_denomination_setup" -> "banknote_denomination_setup_get"
      [] m = "set_banknote_denomination_setup" -> "banknote_denomination_setup_post"
      [] m = "get_coin_tube_setup" -> "coin_tube_setup_get"
      [] m = "set_coin_tube_setup" -> "coin_tube_setup_post"
      [] OTHER -> m

(* The methods that call self.session.get; the others call self.session.post. *)
GetMethods ==
    { "logout", "get_machine_info", "get_cash_info", "get_sensor_status",
      "get_cassette_status", "get_status", "reset_status", "self_test",
      "get_banknote_denomination_setup", "get_coin_tube_setup" }

(* reset_status issued like the other state-changing calls. *)
Verb_reset_posts(m) == IF m \in GetMethods \ {"reset_status"} THEN "GET" ELSE "POST"

Verb(m) == IF m \in GetMethods THEN "GET" ELSE "POST"

(* A make_url that joins base and path with a separator of its own. *)
make_url_joined(base, endpoint) == base \o "/" \o endpoint

(* make_url: f"{self.base_url}{endpoint}" *)
make_url(base, endpoint) == base \o endpoint

DefaultTimeout == 10

DrumCount == 4     \* the drums the drum-management tab offers: 1..4

NoBody == [t |-> "none", v |-> 0]   \* the method passes no json= argument

(* A merge in which the keys of door_settings win. *)
DoorPayload_input_wins(door_settings, timeout) ==
    JObj(door_settings.v @@ ("Open Timeout" :> timeout))

(* door_control: payload = {**door_settings, "Open Timeout": timeout}; the *)
(* key written last wins.                                                  *)
DoorPayload(door_settings, timeout) ==
    JObj(("Open Timeout" :> timeout) @@ door_settings.v)

(* The json= argument of the method's session.post call. *)
Payload(c) ==
    CASE c.m = "login" -> JObj([account |-> c.a, password |-> c.b])
      [] c.m = "pay" -> JObj([items |-> c.a])
      [] c.m = "payment" -> JObj([amount |-> c.a])
      [] c.m = "pos_pay" -> JObj([items |-> c.a, POS_reference_number |-> c.b])
      [] c.m = "pos_payment" -> JObj([amount |-> c.a, POS_reference_number |-> c.b])
      [] c.m = "query" -> JObj([uuid |-> c.a])
      [] c.m = "door_control" ->
            DoorPayload(c.a, IF c.b = NoArg THEN JNum(DefaultTimeout) ELSE c.b)
      [] c.m = "get_cash_detail_info" -> JObj([name |-> c.a])
      [] c.m = "refund" -> JObj([amount |-> c.a])
      [] c.m = "withdraw" -> JObj([withdraw |-> c.a])
      [] c.m = "get_error_message" -> JObj([errorCode |-> c.a])
      [] c.m = "drum_to_cassette" -> JObj([drumId |-> c.a, pcs |-> c.b])
      [] c.m = "clear_hopper" -> JObj([hopperId |-> c.a])
      [] c.m \in {"set_banknote_denomination_setup", "set_coin_tube_setup"} -> c.a
      [] c.m = "set_device_setting" -> JObj([deviceId |-> c.a, url |-> c.b])
      [] c.m = "setup_setting" -> JObj([name |-> c.a, value |-> c.b])
      [] OTHER -> NoBody

(* Every session.post given json=, an empty object where the method has   *)
(* no payload.                                                             *)
Request_json_always(base, c) ==
    [ verb |-> Verb(c.m),
      url  |-> make_url(base, ENDPOINTS[EndpointKey(c.m)]),
      body |-> IF Payload(c) = NoBody /\ Verb(c.m) = "POST" THEN JObj(<<>>) ELSE Payload(c) ]

(* The request a method hands to the connection. *)
Request(base, c) ==
    [ verb |-> Verb(c.m),
      url  |-> make_url(base, ENDPOINTS[EndpointKey(c.m)]),
      body |-> Payload(c) ]

----------------------------------------------------------------------------
(* What the connection can deliver: a body that parses as JSON (carried as *)
(* the value response.json() returns) or one that does not (its text).     *)

JsonBody(x) == [kind |-> "json", v |-> x]
TextBody(s) == [kind |-> "text", v |-> JStr(s)]
NoResponse  == [kind |-> "none", v |-> JNull]

TxData == JObj([uuid |-> JStr("abc-123")])

SuccessObjects ==
    { JObj([isSuccess |-> JBool(TRUE), data |-> TxData]),
      JObj([isSuccess |-> JBool(TRUE)]),
      JObj([isSuccess |-> JNum(1), data |-> TxData, errorMsg |-> JStr("")]),
      JObj([isSuccess |-> JStr("yes")]) }

FailureObjects ==
    { JObj([isSuccess |-> JBool(FALSE), errorMsg |-> JStr("insufficient stock")]),
      JObj([isSuccess |-> JBool(FALSE), errorMsg |-> JStr("bad drum"), code |-> JNum(509)]),
      JObj([isSuccess |-> JBool(FALSE), code |-> JNum(509)]),
      JObj([isSuccess |-> JBool(FALSE), errorMsg |-> JStr("busy"), data |-> TxData]),
      JObj([isSuccess |-> JBool(FALSE)]),
      JObj([isSuccess |-> JNum(0)]),
      JObj([isSuccess |-> JNull, errorMsg |-> JNum(506)]),
      JObj([errorMsg |-> JStr("not logged in")]),
      JObj([data |-> TxData]),
      JObj(<<>>) }

NonObjects == { JList(<<>>), JList(<<JNum(1)>>), JStr("ok"), JNum(5), JNull, JBool(TRUE) }

Bodies ==
    {JsonBody(x) : x \in SuccessObjects \cup FailureObjects \cup NonObjects}
    \cup {TextBody("<html>error</html>"), TextBody("")}

----------------------------------------------------------------------------
(* handle_response *)

Returned(x) == [kind |-> "value", v |-> x]
Raised(e)   == [kind |-> "raised", v |-> JStr(e)]
NotYet      == [kind |-> "none", v |-> JNull]

UNKNOWN_ERROR == "unknown error"                  \* the default of data.get('errorMsg', ...)
PARSE_FAILED  == "response parse failed"          \* the errorMsg of the synthesised envelope

ApiErrorNote(msg) == [what |-> "API error", arg |-> msg]              \* st.error, line 147
ParseErrorNote(body) == [what |-> "response parse failed", arg |-> body.v]  \* st.error, line 150

ParseFailedEnvelope == JObj([isSuccess |-> JBool(FALSE), errorMsg |-> JStr(PARSE_FAILED)])

(* No except clause: the JSONDecodeError leaves handle_response. *)
OnParseFailure_unhandled(response) ==
    [ret |-> Raised("JSONDecodeError"), notes |-> <<>>]

(* except json.JSONDecodeError (lines 149-151): notify, and return the    *)
(* synthesised failure envelope.                                           *)
OnParseFailure(response) ==
    [ret |-> Returned(ParseFailedEnvelope), notes |-> <<ParseErrorNote(response)>>]

(* The default message written into the envelope that is returned. *)
OnFailure_fills_default(data) ==
    [ret |-> Returned(JObj(("errorMsg" :> DictGet(data, "errorMsg", JStr(UNKNOWN_ERROR))) @@ data.v)),
     notes |-> <<ApiErrorNote(DictGet(data, "errorMsg", JStr(UNKNOWN_ERROR)))>>]

(* The server's numeric code translated through Config.ERROR_CODES. *)
OnFailure_translates_code(data) ==
    LET code == DictGet(data, "code", JNull)
        known == code.t = "num" /\ code.v \in DOMAIN ERROR_CODES
    IN  [ret |-> Returned(IF known
                          THEN JObj(("errorMsg" :> JStr(ERROR_CODES[code.v])) @@ data.v)
                          ELSE data),
         notes |-> <<ApiErrorNote(DictGet(data, "errorMsg", JStr(UNKNOWN_ERROR)))>>]

(* isSuccess false or absent (lines 146-148): notify with the server's     *)
(* errorMsg or the default, and return data itself.                        *)
OnFailure(data) ==
    [ret |-> Returned(data),
     notes |-> <<ApiErrorNote(DictGet(data, "errorMsg", JStr(UNKNOWN_ERROR)))>>]

(* The envelope rebuilt from the fields the client knows. *)
OnSuccess_rebuilt(data) ==
    [ret |-> Returned(JObj([isSuccess |-> JBool(TRUE), data |-> DictGet(data, "data", JNull)])),
     notes |-> <<>>]

(* isSuccess truthy (line 148): return data itself. *)
OnSuccess(data) ==
    [ret |-> Returned(data), notes |-> <<>>]

(* A client that remembers a read and hands a bare "not modified" success *)
(* to the caller who repeats it.                                           *)
handle_response_remembering(response) ==
    IF obs.m # "" /\ obs.m = cur.m
    THEN [ret |-> Returned(JObj([isSuccess |-> JBool(TRUE)])), notes |-> <<>>]
    ELSE IF response.kind # "json"
         THEN OnParseFailure(response)
         ELSE IF response.v.t # "obj"
              THEN [ret |-> Raised("AttributeError"), notes |-> <<>>]
              ELSE IF ~Truthy(DictGet(response.v, "isSuccess", JBool(FALSE)))
                   THEN OnFailure(response.v)
                   ELSE OnSuccess(response.v)

(* The result of handle_response on a delivered body: how it ends and the  *)
(* notifications it pushes.  response.json() raises JSONDecodeError on a   *)
(* body that is not JSON; data.get raises AttributeError, which the        *)
(* except clause does not name, on a JSON value that is not an object.     *)
handle_response(response) ==
    IF response.kind # "json"
    THEN OnParseFailure(response)
    ELSE LET data == response.v IN
         IF data.t # "obj"
         THEN [ret |-> Raised("AttributeError"), notes |-> <<>>]
         ELSE IF ~Truthy(DictGet(data, "isSuccess", JBool(FALSE)))
              THEN OnFailure(data)
              ELSE OnSuccess(data)

----------------------------------------------------------------------------
(* The state machine *)

BaseUrls == {DEFAULT_API_BASE_URL, "http://10.0.0.5:8080/", ""}

NoInvocation == [m |-> "", a |-> NoArg, b |-> NoArg]

(* The cookies a response can set.  requests.Session keeps them in its jar *)
(* and sends the jar with every later request of the same Session.         *)
Cookies == {"JSESSIONID"}

(* One method going out without the cookies of the session. *)
SessionCookies_machine_info_bare(m, j) == IF m = "get_machine_info" THEN {} ELSE j

(* The cookies that go out with a request of method m: every method sends  *)
(* through self.session, so the whole jar.                                 *)
SessionCookies(m, j) == j

(* session.get / session.post: the request goes out with the jar's cookies. *)
Prepared(base, c, j) ==
    [ verb    |-> Request(base, c).verb,
      url     |-> Request(base, c).url,
      body    |-> Request(base, c).body,
      cookies |-> SessionCookies(c.m, j) ]

(* session.get / session.post: hand one request to the connection. *)
Send(w, r) == Append(w, r)

(* The status reads of the device; nothing the client sends with them      *)
(* changes the device.                                                     *)
ReadMethods == {"get_status", "get_cash_info"}

(* What the device answered to the reads made since it last changed: the   *)
(* method, the first answer and what the client returned for it, and       *)
(* whether one such read (n = 1) or more (n = 2) have been answered.       *)
NoObs == [m |-> "", resp |-> NoResponse, ret |-> NotYet, n |-> 0]

----------------------------------------------------------------------------
(* The pages (class UI).  A render pass runs one page function from top to *)
(* bottom; the variable ui holds the function, the contents of its input   *)
(* widgets (a, b), whether its button was pressed, the call site the pass  *)
(* has reached and whether the pass is running, has ended or was aborted   *)
(* by an exception.                                                        *)

Handlers ==
    { "sidebar_navigation", "login_page", "dashboard_page",
      "_render_single_amount_payment", "_render_transaction_status_section",
      "_render_door_control_tab" }

NoPass == [h |-> "", a |-> NoArg, b |-> NoArg, pressed |-> FALSE, at |-> 0, st |-> "end"]

(* st.session_state before the first pass: the login flag is false and no  *)
(* other key is set.                                                       *)
InitialSessionState == JObj([logged_in |-> JBool(FALSE)])

SessionSet(ss, key, x) == JObj((key :> x) @@ ss.v)

LoggedIn(ss) == Truthy(DictGet(ss, "logged_in", JBool(FALSE)))   \* st.session_state.logged_in

(* door_settings as the four select boxes of the door-control tab fill it. *)
TabDoorMaps ==
    { d \in DoorMaps : DOMAIN d.v = { "Note Security Door", "Note Drum Door",
                                       "Note Cassette Door", "Coin Security Door" } }

(* The answers the pages tell apart: a success with and without data, a    *)
(* failure, a JSON value that is no object, and a body that is not JSON.   *)
UIBodies ==
    { JsonBody(JObj([isSuccess |-> JBool(TRUE), data |-> TxData])),
      JsonBody(JObj([isSuccess |-> JBool(TRUE)])),
      JsonBody(JObj([isSuccess |-> JBool(FALSE), errorMsg |-> JStr("insufficient stock")])),
      JsonBody(JList(<<>>)),
      TextBody("") }

(* The contents of the widgets of page function h. *)
----------------------------------------------------------------------------
(* The payment pages: item lists, POS payments, refill, refund, withdraw   *)
(* and the operations on the running transaction.                          *)

MaxRows == 2        \* an item list of a page holds 1..MaxRows rows

(* The characters of the texts the model leaves in quantity and price      *)
(* fields.                                                                 *)
Spelling(s) ==
    CASE s = ""    -> <<>>
      [] s = "1"   -> <<"1">>
      [] s = "2"   -> <<"2">>
      [] s = "500" -> <<"5", "0", "0">>
      [] s = "-3"  -> <<"-", "3">>
      [] s = "x"   -> <<"x">>

DigitValue(ch) ==
    CASE ch = "0" -> 0 [] ch = "1" -> 1 [] ch = "2" -> 2 [] ch = "3" -> 3 [] ch = "4" -> 4
      [] ch = "5" -> 5 [] ch = "6" -> 6 [] ch = "7" -> 7 [] ch = "8" -> 8 [] ch = "9" -> 9

DigitChars == {"0", "1", "2", "3", "4", "5", "6", "7", "8", "9"}

AllDigits(q) == q # <<>> /\ \A i \in 1..Len(q) : q[i] \in DigitChars

RECURSIVE ValueOfDigits(_)
ValueOfDigits(q) ==
    IF q = <<>> THEN 0
    ELSE 10 * ValueOfDigits(SubSeq(q, 1, Len(q) - 1)) + DigitValue(q[Len(q)])

(* str.isdigit(): the text is not empty and every character is a digit. *)
isdigit(s) == AllDigits(Spelling(s))

(* int(text): an optional sign and digits give the number, any other text  *)
(* raises ValueError.                                                      *)
int(s) ==
    LET q      == Spelling(s)
        signed == q # <<>> /\ q[1] \in {"-", "+"}
        digits == IF signed THEN Tail(q) ELSE q
    IN  IF ~AllDigits(digits) THEN Raised("ValueError")
        ELSE IF signed /\ q[1] = "-" THEN Returned(JNum(0 - ValueOfDigits(digits)))
        ELSE Returned(JNum(ValueOfDigits(digits)))

(* total_amount = sum(int(item["pcs"]) * int(item.get("price", 0))         *)
(*                    for item in items if item.get("price", "").isdigit()) *)
(* : the number, or the ValueError that int raises on a quantity.          *)
RECURSIVE total_amount(_)
total_amount(items) ==
    IF items = <<>> THEN Returned(JNum(0))
    ELSE LET item == items[1]
             rest == total_amount(Tail(items))
         IN  IF ~isdigit(item.v.price.v) THEN rest
             ELSE IF int(item.v.pcs.v).kind = "raised" THEN int(item.v.pcs.v)
             ELSE IF rest.kind = "raised" THEN rest
             ELSE Returned(JNum(int(item.v.pcs.v).v.v * int(item.v.price.v).v.v + rest.v.v))

(* The rows of an item list: a filled row, the empty row a new list starts *)
(* with, a row whose quantity is no number, and a row whose quantity is    *)
(* negative and whose price is no number.                                  *)
ItemRows ==
    { JObj([name |-> JStr("tea"), pcs |-> JStr("2"),  price |-> JStr("500")]),
      JObj([name |-> JStr(""),    pcs |-> JStr("1"),  price |-> JStr("")]),
      JObj([name |-> JStr("tea"), pcs |-> JStr("x"),  price |-> JStr("500")]),
      JObj([name |-> JStr("tea"), pcs |-> JStr("-3"), price |-> JStr("x")]) }

ItemLists == UNION { {JList(q) : q \in [1..n -> ItemRows]} : n \in 1..MaxRows }

(* valid_items = [item for item in items                                   *)
(*                if item["name"] and item["pcs"] and item["price"]]       *)
valid_items(items) ==
    JList(SelectSeq(items.v, LAMBDA item :
              Truthy(item.v.name) /\ Truthy(item.v.pcs) /\ Truthy(item.v.price)))

(* valid_items = [item for item in withdraw_items if item["pcs"] > 0] *)
valid_withdraw_items(items) ==
    JList(SelectSeq(items.v, LAMBDA item : item.v.pcs.v > 0))

ItemListFunctions == {"_render_item_list_payment", "_render_pos_item_list_payment"}

PaymentHandlers ==
    ItemListFunctions \cup
    { "_render_single_amount_payment", "_render_pos_amount_payment",
      "_render_refill_refund_tab", "_render_cash_operations_tab",
      "_render_transaction_operations", "_render_transaction_status_section" }

(* The keys of the buttons of the page functions that have several. *)
RefillRefundButtons == {JStr("start_refill"), JStr("end_refill"), JStr("execute_refund")}
OperationButtons ==
    {JStr("cancel_transaction"), JStr("stop_transaction"), JStr("continue_transaction"),
     JStr("reset_status")}

(* The widgets of the payment pages: a is the item list, the amount or the *)
(* withdraw list; b is the POS reference number or, for a page function    *)
(* with several buttons, the key of the button that can be pressed.        *)
PaymentWidgetA(h) ==
    CASE h \in ItemListFunctions -> ItemLists
      [] h = "_render_pos_amount_payment" -> Amounts \cup {JStr("")}
      [] h = "_render_refill_refund_tab" -> Amounts \cup {JStr("")}
      [] h = "_render_cash_operations_tab" ->
            {JList(<<WithdrawItem>>), JList(<<JObj([iscoin |-> JBool(TRUE), pcs |-> JNum(0), deno |-> JNum(100)])>>)}
      [] OTHER -> {NoArg}

PaymentWidgetB(h) ==
    CASE h \in {"_render_pos_item_list_payment", "_render_pos_amount_payment"} -> PosRefs
      [] h = "_render_refill_refund_tab" -> RefillRefundButtons
      [] h = "_render_transaction_operations" -> OperationButtons
      [] OTHER -> {NoArg}

(* Item payments that send only the rows whose quantity and price are     *)
(* numbers.                                                                *)
PaymentScript_numeric_only(u, ss, last) ==
    LET numeric == JList(SelectSeq(valid_items(u.a).v, LAMBDA item :
                             isdigit(item.v.pcs.v) /\ isdigit(item.v.price.v)))
    IN  CASE u.h = "_render_item_list_payment" /\ u.at = 1 /\ u.pressed /\ Truthy(numeric) ->
                [m |-> "pay", a |-> numeric, b |-> NoArg]
          [] u.h = "_render_pos_item_list_payment" /\ u.at = 1 /\ u.pressed
                /\ Truthy(u.b) /\ Truthy(numeric) ->
                [m |-> "pos_pay", a |-> numeric, b |-> u.b]
          [] OTHER -> NoInvocation

(* The call of a payment page at call site u.at. *)
PaymentScript(u, ss, last) ==
    CASE u.h = "_render_item_list_payment" /\ u.at = 1 ->
            IF u.pressed /\ Truthy(valid_items(u.a))
            THEN [m |-> "pay", a |-> valid_items(u.a), b |-> NoArg]
            ELSE NoInvocation
      [] u.h = "_render_pos_item_list_payment" /\ u.at = 1 ->
            IF u.pressed /\ Truthy(u.b) /\ Truthy(valid_items(u.a))
            THEN [m |-> "pos_pay", a |-> valid_items(u.a), b |-> u.b]
            ELSE NoInvocation
      [] u.h = "_render_pos_amount_payment" /\ u.at = 1 ->
            IF u.pressed /\ Truthy(u.b) /\ Truthy(u.a)
            THEN [m |-> "pos_payment", a |-> u.a, b |-> u.b]
            ELSE NoInvocation
      [] u.h = "_render_refill_refund_tab" /\ u.at = 1 ->
            IF u.pressed /\ u.b = JStr("start_refill")
            THEN [m |-> "refill", a |-> NoArg, b |-> NoArg]
            ELSE IF u.pressed /\ u.b = JStr("end_refill")
            THEN [m |-> "refill_end", a |-> NoArg, b |-> NoArg]
            ELSE IF u.pressed /\ u.b = JStr("execute_refund") /\ Truthy(u.a)
            THEN [m |-> "refund", a |-> u.a, b |-> NoArg]
            ELSE NoInvocation
      [] u.h = "_render_cash_operations_tab" /\ u.at = 1 ->
            IF u.pressed /\ Truthy(valid_withdraw_items(u.a))
            THEN [m |-> "withdraw", a |-> valid_withdraw_items(u.a), b |-> NoArg]
            ELSE NoInvocation
      [] u.h = "_render_transaction_operations" /\ u.at = 1 /\ u.pressed ->
            [m |-> CASE u.b = JStr("cancel_transaction") -> "cancel"
                     [] u.b = JStr("stop_transaction") -> "payment_stop"
                     [] u.b = JStr("continue_transaction") -> "payment_continue"
                     [] u.b = JStr("reset_status") -> "reset_status",
             a |-> NoArg, b |-> NoArg]
      [] OTHER -> NoInvocation

(* uuid = response.get("data", {}).get("uuid", "") *)
uuid_of(r) == DictGet(DictGet(r, "data", JObj(<<>>)), "uuid", JStr(""))

(* Pages that keep the identifier of a refill, refund or withdraw where    *)
(* the identifier of the payment is kept.                                  *)
AfterPaymentCall_one_key(u, r, ss) ==
    IF ~Truthy(DictGet(r, "isSuccess", JBool(FALSE))) THEN ss
    ELSE IF u.h \in ItemListFunctions \cup {"_render_pos_amount_payment",
                                            "_render_refill_refund_tab",
                                            "_render_cash_operations_tab"}
    THEN SessionSet(ss, "current_transaction_uuid", uuid_of(r))
    ELSE ss

(* The statements after the call of a payment page that returned r. *)
AfterPaymentCall(u, r, ss) ==
    IF ~Truthy(DictGet(r, "isSuccess", JBool(FALSE))) THEN ss
    ELSE CASE u.h \in ItemListFunctions \cup {"_render_pos_amount_payment"} ->
                 SessionSet(ss, "current_transaction_uuid", uuid_of(r))
           [] u.h = "_render_refill_refund_tab" /\ u.b = JStr("start_refill") ->
                 SessionSet(ss, "current_refill_uuid", uuid_of(r))
           [] u.h = "_render_refill_refund_tab" /\ u.b = JStr("execute_refund") ->
                 SessionSet(ss, "current_refund_uuid", uuid_of(r))
           [] u.h = "_render_cash_operations_tab" ->
                 SessionSet(ss, "current_withdraw_uuid", uuid_of(r))
           [] OTHER -> ss

(* What a page function computes before its first call site raises: the    *)
(* item lists compute their total on every render.                         *)
RaisesBeforeCalls(u, ss) ==
    u.h \in ItemListFunctions /\ total_amount(u.a.v).kind = "raised"

----------------------------------------------------------------------------
(* The tabs that keep a status response in session state: cash             *)
(* information, banknote settings, coin settings and sensor status.        *)

CacheTabs ==
    { "_render_cash_info_tab", "_render_banknote_settings_tab",
      "_render_coin_settings_tab", "_render_sensor_status_tab" }

(* The session-state key a tab keeps its response under, and the client    *)
(* method that fetches it.                                                 *)
CacheKey(h) ==
    CASE h = "_render_cash_info_tab" -> "cash_info"
      [] h = "_render_banknote_settings_tab" -> "banknote_settings"
      [] h = "_render_coin_settings_tab" -> "coin_settings"
      [] h = "_render_sensor_status_tab" -> "sensor_status"

StatusMethod(h) ==
    CASE h = "_render_cash_info_tab" -> "get_cash_info"
      [] h = "_render_banknote_settings_tab" -> "get_banknote_denomination_setup"
      [] h = "_render_coin_settings_tab" -> "get_coin_tube_setup"
      [] h = "_render_sensor_status_tab" -> "get_sensor_status"

(* st.session_state.get(key): None while the key is not set. *)
Cached(h, ss) == DictGet(ss, CacheKey(h), JNull)

(* What the server answers to the tabs: the status, an object with no key  *)
(* at all, and a refusal.                                                  *)
CacheBodies ==
    { JsonBody(JObj([isSuccess |-> JBool(TRUE), data |-> JObj(<<>>)])),
      JsonBody(JObj(<<>>)),
      JsonBody(JObj([isSuccess |-> JBool(FALSE), errorMsg |-> JStr("module not ready")])) }

(* The calls of a tab.  Call site 1 is the refresh button's fetch; then    *)
(* response = st.session_state.get(key) or api.<status method>() fetches   *)
(* when what session state holds is falsy; the sensor tab then asks for    *)
(* the cassette status when the response it draws from says success.  u.at *)
(* counts the calls of the pass, so which statement comes next follows     *)
(* from the button and from what session state holds.  (The drum-detail    *)
(* button of the cash tab shows only for a status that lists banknote      *)
(* drums, which no answer of the model does.)                              *)
CacheScript(u, ss, last) ==
    LET fetch    == [m |-> StatusMethod(u.h), a |-> NoArg, b |-> NoArg]
        cassette == [m |-> "get_cassette_status", a |-> NoArg, b |-> NoArg]
        held     == Cached(u.h, ss)
        sensor   == u.h = "_render_sensor_status_tab"
        ok(x)    == x.t = "obj" /\ Truthy(DictGet(x, "isSuccess", JBool(FALSE)))
    IN  CASE u.at = 1 ->
                IF u.pressed \/ ~Truthy(held) THEN fetch
                ELSE IF sensor /\ ok(held) THEN cassette
                ELSE NoInvocation
          [] u.at = 2 ->
                IF u.pressed /\ ~Truthy(held) THEN fetch
                ELSE IF sensor /\ (u.pressed \/ ~Truthy(held)) /\ ok(last.v) THEN cassette
                ELSE NoInvocation
          [] u.at = 3 ->
                IF sensor /\ u.pressed /\ ~Truthy(held) /\ ok(last.v) THEN cassette
                ELSE NoInvocation
          [] OTHER -> NoInvocation

(* st.session_state.<key> = api.<status method>() in the handler of the    *)
(* refresh button: the first call of a pass with the button pressed.       *)
AfterCacheCall(u, r, ss) ==
    IF u.at = 1 /\ u.pressed THEN SessionSet(ss, CacheKey(u.h), r) ELSE ss

----------------------------------------------------------------------------
(* The transaction history page. *)

TrackedUuids == {JStr("abc-123"), JStr("def-456"), JStr("")}

(* The two buttons of the page: track, and clear the history. *)
HistoryButtons == {JStr("add_to_history"), JStr("clear_history")}

(* What the server answers to the query of the page: a transaction in      *)
(* progress, the same transaction completed, a success without data and a  *)
(* refusal.                                                                *)
HistoryBodies ==
    { JsonBody(JObj([isSuccess |-> JBool(TRUE),
                     data |-> JObj([info |-> JObj([status |-> JStr("in progress")])])])),
      JsonBody(JObj([isSuccess |-> JBool(TRUE),
                     data |-> JObj([info |-> JObj([status |-> JStr("done"),
                                                   pay_amount |-> JNum(500),
                                                   change |-> JNum(0)])])])),
      JsonBody(JObj([isSuccess |-> JBool(TRUE)])),
      JsonBody(JObj([isSuccess |-> JBool(FALSE), errorMsg |-> JStr("UUID not found")])) }

(* st.session_state.transaction_history, and the uuids of its records. *)
transaction_history(ss) == DictGet(ss, "transaction_history", JList(<<>>)).v
HistoryUuids(ss) == {transaction_history(ss)[i].v.uuid : i \in 1..Len(transaction_history(ss))}

(* The record the page makes of a query's success envelope.  (Its          *)
(* timestamp, the time of the wall clock, is left out.)                    *)
transaction_record(uuid, response) ==
    LET transaction_data == DictGet(response, "data", JObj(<<>>))
        info             == DictGet(transaction_data, "info", JObj(<<>>))
    IN  JObj([ uuid   |-> uuid,
               status |-> DictGet(info, "status", JStr("unknown")),
               amount |-> DictGet(info, "pay_amount", JNum(0)),
               change |-> DictGet(info, "change", JNum(0)),
               data   |-> transaction_data ])

(* Before the calls: the page sets the history to the empty list when      *)
(* session state has none.  The clear button, drawn while the history is   *)
(* not empty, sets it to the empty list; the pass of that press makes no   *)
(* call.                                                                   *)
BeforeHistoryCalls(u, ss) ==
    IF "transaction_history" \notin DOMAIN ss.v \/ (u.pressed /\ u.b = JStr("clear_history"))
    THEN SessionSet(ss, "transaction_history", JList(<<>>))
    ELSE ss

(* A page that queries every identifier it is given, tracked or not. *)
HistoryScript_always_queries(u, ss, last) ==
    IF u.at = 1 /\ u.pressed /\ u.b = JStr("add_to_history") /\ Truthy(u.a)
    THEN [m |-> "query", a |-> u.a, b |-> NoArg]
    ELSE NoInvocation

(* A page that queries a tracked identifier again while its record does    *)
(* not say done.                                                           *)
HistoryScript_requery_unfinished(u, ss, last) ==
    IF /\ u.at = 1 /\ u.pressed /\ u.b = JStr("add_to_history") /\ Truthy(u.a)
       /\ \A i \in 1..Len(transaction_history(ss)) :
             transaction_history(ss)[i].v.uuid = u.a
                => transaction_history(ss)[i].v.status # JStr("done")
    THEN [m |-> "query", a |-> u.a, b |-> NoArg]
    ELSE NoInvocation

(* The call of the track button: a query for the identifier in the field,  *)
(* when it is not empty and no record of the history has it.               *)
HistoryScript(u, ss, last) ==
    IF /\ u.at = 1 /\ u.pressed /\ u.b = JStr("add_to_history") /\ Truthy(u.a)
       /\ u.a \notin HistoryUuids(ss)
    THEN [m |-> "query", a |-> u.a, b |-> NoArg]
    ELSE NoInvocation

(* A page that records the transaction whatever the query answered. *)
AfterHistoryCall_any_envelope(u, r, ss) ==
    SessionSet(ss, "transaction_history",
               JList(Append(transaction_history(ss), transaction_record(u.a, r))))

(* After the query: a success envelope appends one record. *)
AfterHistoryCall(u, r, ss) ==
    IF Truthy(DictGet(r, "isSuccess", JBool(FALSE)))
    THEN SessionSet(ss, "transaction_history",
                    JList(Append(transaction_history(ss), transaction_record(u.a, r))))
    ELSE ss

----------------------------------------------------------------------------
(* The pages by the group they belong to. *)
PageWidgetA(h) ==
    IF h \in PaymentHandlers THEN PaymentWidgetA(h)
    ELSE IF h = "transaction_history_page" THEN TrackedUuids
    ELSE {NoArg}
PageWidgetB(h) ==
    IF h \in PaymentHandlers THEN PaymentWidgetB(h)
    ELSE IF h = "transaction_history_page" THEN HistoryButtons
    ELSE {NoArg}

PageScript(u, ss, last) ==
    IF u.h \in PaymentHandlers THEN PaymentScript(u, ss, last)
    ELSE IF u.h \in CacheTabs THEN CacheScript(u, ss, last)
    ELSE IF u.h = "transaction_history_page" THEN HistoryScript(u, ss, last)
    ELSE NoInvocation

AfterPageCall(u, r, ss) ==
    IF u.h \in PaymentHandlers THEN AfterPaymentCall(u, r, ss)
    ELSE IF u.h \in CacheTabs THEN AfterCacheCall(u, r, ss)
    ELSE IF u.h = "transaction_history_page" THEN AfterHistoryCall(u, r, ss)
    ELSE ss

----------------------------------------------------------------------------
WidgetA(h) ==
    CASE h = "sidebar_navigation" -> {JStr(u) : u \in BaseUrls}
      [] h = "login_page" -> Accounts
      [] h = "_render_single_amount_payment" -> Amounts \cup {JStr("")}
      [] h = "_render_transaction_status_section" -> Uuids
      [] h = "_render_door_control_tab" -> TabDoorMaps
      [] OTHER -> PageWidgetA(h)

WidgetB(h) ==
    CASE h = "login_page" -> Passwords
      [] h = "_render_door_control_tab" -> Timeouts
      [] OTHER -> PageWidgetB(h)

(* Whether the page function shows a button to press: the dashboard has   *)
(* none, and the sidebar shows its logout button to a logged-in user only. *)
ButtonShown(h, ss) ==
    /\ h # "dashboard_page"
    /\ h = "sidebar_navigation" => LoggedIn(ss)

(* The page functions that build a client of their own,                    *)
(* CashPointPayAPI(st.session_state.api_base_url), for their call; the     *)
(* others call the client they are handed.                                 *)
BuildsClient(h) == h \in {"sidebar_navigation", "login_page"}

(* What the page function does before its first call site: the sidebar     *)
(* stores the URL field when it differs from the stored URL.               *)
BeforeCalls(u, ss) ==
    IF u.h = "sidebar_navigation" /\ u.a # DictGet(ss, "api_base_url", JStr(""))
    THEN SessionSet(ss, "api_base_url", u.a)
    ELSE IF u.h = "transaction_history_page" THEN BeforeHistoryCalls(u, ss)
    ELSE ss

(* A payment section that asks for the status of the transaction it has   *)
(* just started.                                                           *)
Script_payment_then_query(u, ss, last) ==
    CASE u.h = "sidebar_navigation" /\ u.at = 1 ->
            IF LoggedIn(ss) /\ u.pressed
            THEN [m |-> "logout", a |-> NoArg, b |-> NoArg]
            ELSE NoInvocation
      [] u.h = "login_page" /\ u.at = 1 ->
            IF /\ u.pressed
               /\ Truthy(DictGet(ss, "api_base_url", JNull))
               /\ Truthy(u.a) /\ Truthy(u.b)
            THEN [m |-> "login", a |-> u.a, b |-> u.b]
            ELSE NoInvocation
      [] u.h = "dashboard_page" /\ u.at = 1 -> [m |-> "get_status", a |-> NoArg, b |-> NoArg]
      [] u.h = "dashboard_page" /\ u.at = 2 -> [m |-> "get_machine_info", a |-> NoArg, b |-> NoArg]
      [] u.h = "dashboard_page" /\ u.at = 3 -> [m |-> "get_cash_info", a |-> NoArg, b |-> NoArg]
      [] u.h = "_render_single_amount_payment" /\ u.at = 1 ->
            IF u.pressed /\ Truthy(u.a)
            THEN [m |-> "payment", a |-> u.a, b |-> NoArg]
            ELSE NoInvocation
      [] u.h = "_render_single_amount_payment" /\ u.at = 2 ->
            [m |-> "query", a |-> DictGet(ss, "current_transaction_uuid", JStr("")), b |-> NoArg]
      [] u.h = "_render_transaction_status_section" /\ u.at = 1 ->
            IF u.pressed /\ Truthy(u.a)
            THEN [m |-> "query", a |-> u.a, b |-> NoArg]
            ELSE NoInvocation
      [] u.h = "_render_door_control_tab" /\ u.at = 1 ->
            [m |-> "get_machine_info", a |-> NoArg, b |-> NoArg]
      [] u.h = "_render_door_control_tab" /\ u.at = 2 ->
            IF Truthy(DictGet(last.v, "isSuccess", JBool(FALSE))) /\ u.pressed
            THEN [m |-> "door_control", a |-> u.a, b |-> u.b]
            ELSE NoInvocation
      [] OTHER -> PageScript(u, ss, last)

(* The client call the pass makes at call site u.at, given the session     *)
(* state and the value the previous call returned; NoInvocation when the   *)
(* pass makes no further call.                                             *)
Script(u, ss, last) ==
    CASE u.h = "sidebar_navigation" /\ u.at = 1 ->
            IF LoggedIn(ss) /\ u.pressed
            THEN [m |-> "logout", a |-> NoArg, b |-> NoArg]
            ELSE NoInvocation
      [] u.h = "login_page" /\ u.at = 1 ->
            IF /\ u.pressed
               /\ Truthy(DictGet(ss, "api_base_url", JNull))
               /\ Truthy(u.a) /\ Truthy(u.b)
            THEN [m |-> "login", a |-> u.a, b |-> u.b]
            ELSE NoInvocation
      [] u.h = "dashboard_page" /\ u.at = 1 -> [m |-> "get_status", a |-> NoArg, b |-> NoArg]
      [] u.h = "dashboard_page" /\ u.at = 2 -> [m |-> "get_machine_info", a |-> NoArg, b |-> NoArg]
      [] u.h = "dashboard_page" /\ u.at = 3 -> [m |-> "get_cash_info", a |-> NoArg, b |-> NoArg]
      [] u.h = "_render_single_amount_payment" /\ u.at = 1 ->
            IF u.pressed /\ Truthy(u.a)
            THEN [m |-> "payment", a |-> u.a, b |-> NoArg]
            ELSE NoInvocation
      [] u.h = "_render_transaction_status_section" /\ u.at = 1 ->
            IF u.pressed /\ Truthy(u.a)
            THEN [m |-> "query", a |-> u.a, b |-> NoArg]
            ELSE NoInvocation
      [] u.h = "_render_door_control_tab" /\ u.at = 1 ->
            [m |-> "get_machine_info", a |-> NoArg, b |-> NoArg]
      [] u.h = "_render_door_control_tab" /\ u.at = 2 ->
            IF Truthy(DictGet(last.v, "isSuccess", JBool(FALSE))) /\ u.pressed
            THEN [m |-> "door_control", a |-> u.a, b |-> u.b]
            ELSE NoInvocation
      [] OTHER -> PageScript(u, ss, last)

(* A payment section that shows the new transaction and does not keep its *)
(* identifier.                                                             *)
AfterCall_forgets_uuid(u, r, ss) ==
    CASE u.h = "sidebar_navigation" -> SessionSet(ss, "logged_in", JBool(FALSE))
      [] u.h = "login_page" ->
            IF Truthy(DictGet(r, "isSuccess", JBool(FALSE)))
            THEN SessionSet(SessionSet(ss, "logged_in", JBool(TRUE)), "username", u.a)
            ELSE ss
      [] OTHER -> AfterPageCall(u, r, ss)

(* A login page that takes any returned envelope for a successful login. *)
AfterCall_login_any_envelope(u, r, ss) ==
    CASE u.h = "sidebar_navigation" -> SessionSet(ss, "logged_in", JBool(FALSE))
      [] u.h = "login_page" ->
            SessionSet(SessionSet(ss, "logged_in", JBool(TRUE)), "username", u.a)
      [] u.h = "_render_single_amount_payment" ->
            IF Truthy(DictGet(r, "isSuccess", JBool(FALSE)))
            THEN SessionSet(ss, "current_transaction_uuid",
                            DictGet(DictGet(r, "data", JObj(<<>>)), "uuid", JStr("")))
            ELSE ss
      [] OTHER -> AfterPageCall(u, r, ss)

(* A sidebar that stays logged in when the server refuses the logout. *)
AfterCall_logout_if_accepted(u, r, ss) ==
    CASE u.h = "sidebar_navigation" ->
            IF Truthy(DictGet(r, "isSuccess", JBool(FALSE)))
            THEN SessionSet(ss, "logged_in", JBool(FALSE))
            ELSE ss
      [] u.h = "login_page" ->
            IF Truthy(DictGet(r, "isSuccess", JBool(FALSE)))
            THEN SessionSet(SessionSet(ss, "logged_in", JBool(TRUE)), "username", u.a)
            ELSE ss
      [] u.h = "_render_single_amount_payment" ->
            IF Truthy(DictGet(r, "isSuccess", JBool(FALSE)))
            THEN SessionSet(ss, "current_transaction_uuid",
                            DictGet(DictGet(r, "data", JObj(<<>>)), "uuid", JStr("")))
            ELSE ss
      [] OTHER -> AfterPageCall(u, r, ss)

(* The statements that follow the call at site u.at once it has returned   *)
(* the envelope r: the session state they leave.                           *)
AfterCall(u, r, ss) ==
    CASE u.h = "sidebar_navigation" -> SessionSet(ss, "logged_in", JBool(FALSE))
      [] u.h = "login_page" ->
            IF Truthy(DictGet(r, "isSuccess", JBool(FALSE)))
            THEN SessionSet(SessionSet(ss, "logged_in", JBool(TRUE)), "username", u.a)
            ELSE ss
      [] u.h = "_render_single_amount_payment" ->
            IF Truthy(DictGet(r, "isSuccess", JBool(FALSE)))
            THEN SessionSet(ss, "current_transaction_uuid",
                            DictGet(DictGet(r, "data", JObj(<<>>)), "uuid", JStr("")))
            ELSE ss
      [] OTHER -> AfterPageCall(u, r, ss)

----------------------------------------------------------------------------
(* Actions *)

Init ==
    /\ base_url \in BaseUrls
    /\ pc = "idle"
    /\ cur = NoInvocation
    /\ wire = <<>>
    /\ resp = NoResponse
    /\ ret = NotYet
    /\ notes = <<>>
    /\ jar = {}
    /\ login_cookies = {}
    /\ login_issued = {}
    /\ obs = NoObs
    /\ session_state = InitialSessionState
    /\ ui = NoPass
    /\ pass_log = <<>>

(* CashPointPayAPI.__init__: the URL is kept and a new requests.Session,   *)
(* with an empty jar, is made.                                             *)
Construct(u) ==
    /\ pc = "idle"
    /\ ui.st # "run"
    /\ base_url' = u
    /\ jar' = {}
    /\ login_cookies' = {}
    /\ pc' = "idle"
    /\ cur' = NoInvocation
    /\ wire' = <<>>
    /\ resp' = NoResponse
    /\ ret' = NotYet
    /\ notes' = <<>>
    /\ UNCHANGED <<login_issued, obs, session_state, ui, pass_log>>

(* The body of a client method up to the point where it waits in           *)
(* session.get / session.post, on the client with URL base and jar j: the  *)
(* method looks its path up, builds the URL and the payload and hands the  *)
(* request over.  A key that Config.ENDPOINTS does not hold raises         *)
(* KeyError before anything is sent.                                       *)
Invoke(c, base, j) ==
    /\ cur' = c
    /\ resp' = NoResponse
    /\ notes' = <<>>
    /\ obs' = IF c.m = obs.m THEN obs ELSE NoObs
    /\ IF EndpointKey(c.m) \in DOMAIN ENDPOINTS
       THEN /\ wire' = Send(<<>>, Prepared(base, c, j))
            /\ ret' = NotYet
            /\ pc' = "waiting"
       ELSE /\ wire' = <<>>
            /\ ret' = Raised("KeyError")
            /\ pc' = "idle"

(* A client that checks the drum number itself and answers without asking  *)
(* the device.                                                             *)
Call_validating(m, a, b) ==
    /\ pc = "idle"
    /\ ui.st # "run"
    /\ IF m = "drum_to_cassette" /\ a.v \notin 1..DrumCount
       THEN /\ cur' = [m |-> m, a |-> a, b |-> b]
            /\ resp' = NoResponse
            /\ notes' = <<>>
            /\ obs' = NoObs
            /\ wire' = <<>>
            /\ ret' = Returned(JObj([isSuccess |-> JBool(FALSE), errorMsg |-> JStr("bad drum")]))
            /\ pc' = "idle"
       ELSE Invoke([m |-> m, a |-> a, b |-> b], base_url, jar)
    /\ UNCHANGED <<base_url, jar, login_cookies, login_issued, session_state, ui, pass_log>>

(* A caller invokes method m of the client. *)
Call(m, a, b) ==
    /\ pc = "idle"
    /\ ui.st # "run"
    /\ Invoke([m |-> m, a |-> a, b |-> b], base_url, jar)
    /\ UNCHANGED <<base_url, jar, login_cookies, login_issued, session_state, ui, pass_log>>

(* The pass after a call has ended with result r (already noted in ss when *)
(* it returned): aborted when the call raised, else at the next call site, *)
(* and ended when the page function has no call left to make.              *)
Advance(u, r, ss) ==
    IF u.st # "run" THEN u
    ELSE IF r.kind # "value" THEN [u EXCEPT !.st = "abort"]
    ELSE IF Script([u EXCEPT !.at = u.at + 1], ss, r) = NoInvocation
         THEN [u EXCEPT !.at = u.at + 1, !.st = "end"]
         ELSE [u EXCEPT !.at = u.at + 1]

(* The session state after a call of the running pass has ended with r. *)
Continue(u, r, ss) ==
    IF u.st = "run" /\ r.kind = "value" THEN AfterCall(u, r.v, ss) ELSE ss

(* What the reads since the device last changed have been answered. *)
Observe(o, c, body, r) ==
    IF c.m \notin ReadMethods THEN NoObs
    ELSE IF o.m = c.m THEN [o EXCEPT !.n = 2]
    ELSE [m |-> c.m, resp |-> body, ret |-> r, n |-> 1]

(* A method that sends its request again when the answer is not a success. *)
Respond_retrying(body, setc) ==
    /\ pc = "waiting"
    /\ obs.m = cur.m => body = obs.resp
    /\ resp' = body
    /\ IF handle_response(body).notes # <<>> /\ Len(wire) < 2
       THEN /\ wire' = Send(wire, Prepared(base_url, cur, jar))
            /\ pc' = "waiting"
            /\ ret' = NotYet
            /\ notes' = notes
       ELSE /\ wire' = wire
            /\ pc' = "idle"
            /\ ret' = handle_response(body).ret
            /\ notes' = notes \o handle_response(body).notes
    /\ UNCHANGED <<base_url, cur, jar, login_cookies, login_issued, obs, session_state, ui, pass_log>>

(* The connection delivers a response with body `body` that sets the       *)
(* cookies setc, and the method returns self.handle_response(response);    *)
(* the page function that made the call runs on to its next call site.     *)
(* The device answers a read as it answered the same read before, unless   *)
(* it has changed in between.                                              *)
Respond(body, setc) ==
    /\ pc = "waiting"
    /\ obs.m = cur.m => body = obs.resp
    /\ resp' = body
    /\ ret' = handle_response(body).ret
    /\ notes' = notes \o handle_response(body).notes
    /\ jar' = jar \cup setc
    /\ login_cookies' = IF cur.m = "login" THEN login_cookies \cup setc ELSE login_cookies
    /\ obs' = Observe(obs, cur, body, ret')
    /\ session_state' = Continue(ui, ret', session_state)
    /\ login_issued' = IF LoggedIn(session_state') /\ ~LoggedIn(session_state)
                       THEN setc ELSE login_issued
    /\ ui' = Advance(ui, ret', session_state')
    /\ pc' = "idle"
    /\ UNCHANGED <<base_url, cur, wire, pass_log>>

(* A connection failure handled inside the client and reported as a        *)
(* failure envelope, after which the page function runs on.                *)
TransportFailure_reported ==
    /\ pc = "waiting"
    /\ ret' = Returned(JObj([isSuccess |-> JBool(FALSE), errorMsg |-> JStr("connection failed")]))
    /\ session_state' = Continue(ui, ret', session_state)
    /\ ui' = Advance(ui, ret', session_state')
    /\ pc' = "idle"
    /\ UNCHANGED <<base_url, cur, wire, resp, notes, jar, login_cookies, login_issued, obs,
                   pass_log>>

(* The connection fails (refused, unreachable, DNS): session.get / post   *)
(* raises requests.ConnectionError, which no method and no page function  *)
(* catches: the pass ends there.                                           *)
TransportFailure ==
    /\ pc = "waiting"
    /\ ret' = Raised("ConnectionError")
    /\ session_state' = Continue(ui, ret', session_state)
    /\ ui' = Advance(ui, ret', session_state')
    /\ pc' = "idle"
    /\ UNCHANGED <<base_url, cur, wire, resp, notes, jar, login_cookies, login_issued, obs,
                   pass_log>>

(* Something other than this client changes the device (cash is inserted,  *)
(* a door is opened): what it answered to earlier reads no longer binds it. *)
RemoteChange ==
    /\ obs # NoObs
    /\ obs' = NoObs
    /\ UNCHANGED <<base_url, pc, cur, wire, resp, ret, notes, jar, login_cookies,
                   login_issued, session_state, ui, pass_log>>

(* A press that starts the next pass at once, whether or not a call of the *)
(* pass before is still waiting.                                           *)
StartPass_interrupting(h, a, b, pressed) ==
    /\ pressed => ButtonShown(h, session_state)
    /\ LET u  == [h |-> h, a |-> a, b |-> b, pressed |-> pressed, at |-> 1, st |-> "run"]
           ss == BeforeCalls(u, session_state)
           c  == IF RaisesBeforeCalls(u, ss) THEN NoInvocation ELSE Script(u, ss, NotYet)
       IN  /\ session_state' = ss
           /\ IF c = NoInvocation
              THEN /\ ui' = [u EXCEPT !.st = IF RaisesBeforeCalls(u, ss) THEN "abort" ELSE "end"]
                   /\ pass_log' = <<>>
                   /\ cur' = NoInvocation
                   /\ wire' = <<>>
                   /\ resp' = NoResponse
                   /\ ret' = NotYet
                   /\ notes' = <<>>
                   /\ obs' = NoObs
                   /\ pc' = "idle"
                   /\ UNCHANGED <<base_url, jar, login_cookies, login_issued>>
              ELSE /\ IF BuildsClient(h)
                      THEN /\ base_url' = DictGet(ss, "api_base_url", JStr("")).v
                           /\ jar' = {}
                           /\ login_cookies' = {}
                      ELSE UNCHANGED <<base_url, jar, login_cookies>>
                   /\ UNCHANGED login_issued
                   /\ Invoke(c, base_url', jar')
                   /\ ui' = [u EXCEPT !.st = IF pc' = "waiting" THEN "run" ELSE "abort"]
                   /\ pass_log' = IF pc' = "waiting" THEN <<c.m>> ELSE <<>>

(* A render pass of page function h starts, with a and b in its widgets    *)
(* and its button pressed or not, and runs to its first call.  No client   *)
(* method has run in the pass yet, and the device may have changed since   *)
(* the pass before.                                                        *)
StartPass(h, a, b, pressed) ==
    /\ pc = "idle"
    /\ ui.st # "run"
    /\ pressed => ButtonShown(h, session_state)
    /\ LET u  == [h |-> h, a |-> a, b |-> b, pressed |-> pressed, at |-> 1, st |-> "run"]
           ss == BeforeCalls(u, session_state)
           c  == IF RaisesBeforeCalls(u, ss) THEN NoInvocation ELSE Script(u, ss, NotYet)
       IN  /\ session_state' = ss
           /\ IF c = NoInvocation
              THEN /\ ui' = [u EXCEPT !.st = IF RaisesBeforeCalls(u, ss) THEN "abort" ELSE "end"]
                   /\ pass_log' = <<>>
                   /\ cur' = NoInvocation
                   /\ wire' = <<>>
                   /\ resp' = NoResponse
                   /\ ret' = NotYet
                   /\ notes' = <<>>
                   /\ obs' = NoObs
                   /\ UNCHANGED <<base_url, pc, jar, login_cookies, login_issued>>
              ELSE /\ IF BuildsClient(h)
                      THEN /\ base_url' = DictGet(ss, "api_base_url", JStr("")).v
                           /\ jar' = {}
                           /\ login_cookies' = {}
                      ELSE UNCHANGED <<base_url, jar, login_cookies>>
                   /\ UNCHANGED login_issued
                   /\ Invoke(c, base_url', jar')
                   /\ ui' = [u EXCEPT !.st = IF pc' = "waiting" THEN "run" ELSE "abort"]
                   /\ pass_log' = IF pc' = "waiting" THEN <<c.m>> ELSE <<>>

(* The running pass makes the call of the call site it has reached. *)
Proceed ==
    /\ pc = "idle"
    /\ ui.st = "run"
    /\ LET c == Script(ui, session_state, ret)
       IN  /\ Invoke(c, base_url, jar)
           /\ ui' = [ui EXCEPT !.st = IF pc' = "waiting" THEN "run" ELSE "abort"]
           /\ pass_log' = IF pc' = "waiting" THEN Append(pass_log, c.m) ELSE pass_log
    /\ UNCHANGED <<base_url, jar, login_cookies, login_issued, session_state>>

(* The client used by any caller. *)
Next ==
    \/ \E u \in BaseUrls : Construct(u)
    \/ \E m \in Methods : \E a \in FirstArgs(m) : \E b \in SecondArgs(m) : Call(m, a, b)
    \/ \E body \in Bodies : \E setc \in SUBSET Cookies : Respond(body, setc)
    \/ TransportFailure
    \/ RemoteChange

Spec == Init /\ [][Next]_vars

(* The client used by the pages. *)
UINext ==
    \/ \E h \in Handlers : \E a \in WidgetA(h) : \E b \in WidgetB(h) :
          \E pressed \in BOOLEAN : StartPass(h, a, b, pressed)
    \/ Proceed
    \/ \E body \in UIBodies : \E setc \in SUBSET Cookies : Respond(body, setc)
    \/ TransportFailure
    \/ RemoteChange

UISpec == Init /\ [][UINext]_vars

(* The item lists of the payment page. *)
ItemNext ==
    \/ \E h \in ItemListFunctions : \E a \in WidgetA(h) : \E b \in WidgetB(h) :
          \E pressed \in BOOLEAN : StartPass(h, a, b, pressed)
    \/ \E body \in UIBodies : \E setc \in SUBSET Cookies : Respond(body, setc)
    \/ TransportFailure

ItemSpec == Init /\ [][ItemNext]_vars

(* The payment, refill, refund and withdraw pages, each list with one row  *)
(* and each item row with a price that is a number, and a server that sets *)
(* no cookie.                                                              *)
PayInputs(h) ==
    {x \in WidgetA(h) :
        x.t = "list" => /\ Len(x.v) = 1
                        /\ "price" \in DOMAIN x.v[1].v => isdigit(x.v[1].v.price.v)}

PayNext ==
    \/ \E h \in PaymentHandlers : \E a \in PayInputs(h) : \E b \in WidgetB(h) :
          \E pressed \in BOOLEAN : StartPass(h, a, b, pressed)
    \/ \E body \in UIBodies : Respond(body, {})
    \/ TransportFailure

PaySpec == Init /\ [][PayNext]_vars

(* The tabs that keep a status response. *)
CacheNext ==
    \/ \E h \in CacheTabs : \E pressed \in BOOLEAN : StartPass(h, NoArg, NoArg, pressed)
    \/ Proceed
    \/ \E body \in CacheBodies : Respond(body, {})
    \/ TransportFailure
    \/ RemoteChange

CacheSpec == Init /\ [][CacheNext]_vars

(* The transaction history page. *)
HistoryNext ==
    \/ \E a \in TrackedUuids : \E b \in HistoryButtons : \E pressed \in BOOLEAN :
          StartPass("transaction_history_page", a, b, pressed)
    \/ \E body \in HistoryBodies : Respond(body, {})
    \/ TransportFailure

HistorySpec == Init /\ [][HistoryNext]_vars

----------------------------------------------------------------------------
(* Properties *)

Invoked  == cur # NoInvocation              \* a method was invoked on this client
Answered == resp.kind # "none"              \* the connection delivered a response to it
Done     == pc = "idle" /\ ret.kind # "none"  \* the invocation has ended

IsObject(x) == x.t = "obj"
SaysSuccess(x) == IsObject(x) /\ Truthy(DictGet(x, "isSuccess", JBool(FALSE)))
SaysFailure(x) == IsObject(x) /\ ~Truthy(DictGet(x, "isSuccess", JBool(FALSE)))

(* C1: for every client method and every base URL, each request goes to    *)
(* the base URL concatenated with the path Config.ENDPOINTS registers for  *)
(* the method's symbolic name; every such name is a key of the registry,   *)
(* so no invocation ends in a failed lookup.                               *)
C1_UrlIsBasePlusRegisteredPath ==
    /\ \A m \in Methods : EndpointKey(m) \in DOMAIN ENDPOINTS
    /\ ret # Raised("KeyError")
    /\ Invoked => /\ Len(wire) >= 1
                  /\ \A i \in 1..Len(wire) :
                        wire[i].url = base_url \o ENDPOINTS[EndpointKey(cur.m)]

C1_Witness ==
    /\ pc = "waiting"
    /\ cur.m = "get_machine_info"
    /\ base_url = "http://10.0.0.5:8080/"
    /\ wire[1].url = "http://10.0.0.5:8080//api/machineInfo"

(* The verbs of the operation table: GET for these, POST for the rest. *)
TableGetMethods ==
    { "logout", "get_machine_info", "get_cash_info", "get_sensor_status",
      "get_cassette_status", "get_status", "reset_status",
      "get_banknote_denomination_setup", "get_coin_tube_setup" }

(* C2 as stated: every request carries the verb of the operation table,    *)
(* GET for the methods of TableGetMethods and POST for every other method, *)
(* self_test included.                                                     *)
C2_VerbsOfTheTable ==
    \A i \in 1..Len(wire) :
        wire[i].verb = IF cur.m \in TableGetMethods THEN "GET" ELSE "POST"

(* C2, amended: every request carries the verb of the operation table,     *)
(* except that self_test is issued with GET: GET for the methods of        *)
(* TableGetMethods and for self_test, POST for every other method.         *)
C2_VerbsWithSelfTestGet ==
    \A i \in 1..Len(wire) :
        wire[i].verb = IF cur.m \in TableGetMethods \cup {"self_test"} THEN "GET" ELSE "POST"

C2_Witness ==
    /\ pc = "waiting"
    /\ cur.m = "self_test"
    /\ wire[1].verb = "GET"

(* The body the operation table documents for an invocation. *)
TableBody(c) ==
    CASE c.m = "login" -> JObj(("account" :> c.a) @@ ("password" :> c.b))
      [] c.m = "pay" -> JObj("items" :> c.a)
      [] c.m \in {"payment", "refund"} -> JObj("amount" :> c.a)
      [] c.m = "pos_pay" -> JObj(("items" :> c.a) @@ ("POS_reference_number" :> c.b))
      [] c.m = "pos_payment" -> JObj(("amount" :> c.a) @@ ("POS_reference_number" :> c.b))
      [] c.m = "query" -> JObj("uuid" :> c.a)
      [] c.m = "get_cash_detail_info" -> JObj("name" :> c.a)
      [] c.m = "withdraw" -> JObj("withdraw" :> c.a)
      [] c.m = "get_error_message" -> JObj("errorCode" :> c.a)
      [] c.m = "clear_hopper" -> JObj("hopperId" :> c.a)
      [] c.m = "drum_to_cassette" -> JObj(("drumId" :> c.a) @@ ("pcs" :> c.b))
      [] c.m = "set_device_setting" -> JObj(("deviceId" :> c.a) @@ ("url" :> c.b))
      [] c.m = "setup_setting" -> JObj(("name" :> c.a) @@ ("value" :> c.b))
      [] c.m \in {"set_banknote_denomination_setup", "set_coin_tube_setup"} -> c.a
      [] OTHER -> NoBody

(* C3: every request that carries a body carries exactly the keys of the   *)
(* operation table with the caller's argument values; the set-setup calls  *)
(* send the settings list itself; refill, refill_end, cancel, payment_stop *)
(* and payment_continue (and every other method without a payload) send no *)
(* body, and their URL is the bare registered path.                        *)
C3_BodyIsTheTableBody ==
    \A i \in 1..Len(wire) :
        /\ cur.m # "door_control" => wire[i].body = TableBody(cur)
        /\ cur.m = "door_control" =>
              /\ IsObject(wire[i].body)
              /\ DOMAIN wire[i].body.v = DOMAIN cur.a.v \cup {"Open Timeout"}
        /\ cur.m \in {"refill", "refill_end", "cancel", "payment_stop", "payment_continue"} =>
              /\ wire[i].body = NoBody
              /\ wire[i].url = base_url \o ENDPOINTS[cur.m]

C3_Witness ==
    /\ pc = "waiting"
    /\ cur = [m |-> "pos_pay", a |-> JList(<<Item, Item>>), b |-> JStr("POS-1")]
    /\ wire[1].body = JObj([items |-> JList(<<Item, Item>>), POS_reference_number |-> JStr("POS-1")])

(* C4: an invocation hands exactly one request to the connection, whether  *)
(* it is still waiting, was answered with a success, a failure or an       *)
(* unparseable body, or lost the connection.                               *)
C4_OneRequestPerInvocation ==
    Invoked => Len(wire) = 1

C4_Witness ==
    /\ Done
    /\ cur.m = "payment"
    /\ resp = TextBody("<html>error</html>")
    /\ Len(wire) = 1

(* C5: when the response body is a JSON object with a truthy isSuccess,    *)
(* the method returns that object itself, every key and data as sent, and  *)
(* pushes no notification.                                                 *)
C5_SuccessPassedThrough ==
    (Answered /\ resp.kind = "json" /\ SaysSuccess(resp.v)) =>
        /\ ret = Returned(resp.v)
        /\ notes = <<>>

C5_Witness ==
    /\ Done
    /\ resp = JsonBody(JObj([isSuccess |-> JNum(1), data |-> TxData, errorMsg |-> JStr("")]))
    /\ ret = Returned(resp.v)
    /\ notes = <<>>

(* C6: when the response body is not JSON, the method returns an object    *)
(* whose isSuccess is false and whose errorMsg is a non-empty string; it   *)
(* does not raise.                                                         *)
C6_ParseFailureEnvelope ==
    (Answered /\ resp.kind = "text") =>
        /\ ret.kind = "value"
        /\ IsObject(ret.v)
        /\ DOMAIN ret.v.v = {"isSuccess", "errorMsg"}
        /\ ret.v.v["isSuccess"] = JBool(FALSE)
        /\ ret.v.v["errorMsg"].t = "str"
        /\ ret.v.v["errorMsg"].v # ""

C6_Witness ==
    /\ Done
    /\ cur.m = "get_status"
    /\ resp = TextBody("<html>error</html>")
    /\ ret = Returned(JObj([isSuccess |-> JBool(FALSE), errorMsg |-> JStr("response parse failed")]))

(* C7: every invocation the connection answers, whatever the body (a JSON  *)
(* object with or without isSuccess, a JSON value that is not an object,   *)
(* or a body that is not JSON), returns one envelope, an object that       *)
(* carries a boolean isSuccess.                                            *)
C7_AlwaysAnEnvelopeWithFlag ==
    Answered =>
        /\ ret.kind = "value"
        /\ IsObject(ret.v)
        /\ "isSuccess" \in DOMAIN ret.v.v
        /\ ret.v.v["isSuccess"].t = "bool"

(* The errorMsg the server sent, or the generic default when it sent none. *)
MsgOrDefault(x) ==
    IF "errorMsg" \in DOMAIN x.v THEN x.v["errorMsg"] ELSE JStr(UNKNOWN_ERROR)

(* C8 as stated: every returned envelope whose isSuccess is false or       *)
(* absent contains an errorMsg, the server's when it sent one and the      *)
(* generic default otherwise.                                              *)
C8_FailureEnvelopeHasErrorMsg ==
    (Answered /\ resp.kind = "json" /\ ret.kind = "value" /\ SaysFailure(ret.v)) =>
        /\ "errorMsg" \in DOMAIN ret.v.v
        /\ ret.v.v["errorMsg"] = MsgOrDefault(resp.v)

(* C8, amended: for every returned envelope whose isSuccess is false or    *)
(* absent, the notification pushed carries the server's errorMsg when it   *)
(* sent one and the generic default otherwise; the envelope itself is the  *)
(* server's object, so it contains an errorMsg exactly when the server     *)
(* sent one, or it is the synthesised parse-failure envelope with its      *)
(* fixed message.                                                          *)
C8_FailureMessageIsInTheNotification ==
    (Answered /\ ret.kind = "value" /\ SaysFailure(ret.v)) =>
        \/ /\ resp.kind = "text"
           /\ ret.v.v["errorMsg"] = JStr(PARSE_FAILED)
        \/ /\ resp.kind = "json"
           /\ Len(notes) = 1
           /\ notes[1].what = "API error"
           /\ notes[1].arg = MsgOrDefault(resp.v)
           /\ ("errorMsg" \in DOMAIN ret.v.v) <=> ("errorMsg" \in DOMAIN resp.v.v)
           /\ ("errorMsg" \in DOMAIN ret.v.v) => ret.v.v["errorMsg"] = resp.v.v["errorMsg"]

C8_Witness ==
    /\ Done
    /\ resp = JsonBody(JObj([isSuccess |-> JBool(FALSE), code |-> JNum(509)]))
    /\ ret = Returned(JObj([isSuccess |-> JBool(FALSE), code |-> JNum(509)]))
    /\ notes = <<[what |-> "API error", arg |-> JStr("unknown error")]>>

(* A domain failure of the remote API: an object whose isSuccess is false  *)
(* and which carries an errorMsg or a numeric code.                        *)
IsDomainFailure(x) ==
    /\ IsObject(x)
    /\ "isSuccess" \in DOMAIN x.v
    /\ x.v["isSuccess"] = JBool(FALSE)
    /\ \/ "errorMsg" \in DOMAIN x.v
       \/ "code" \in DOMAIN x.v /\ x.v["code"].t = "num"

(* C9: a domain failure envelope of the remote API is what the method      *)
(* returns, with no field added, removed or rewritten (so nothing of       *)
(* Config.ERROR_CODES appears in it).                                      *)
C9_DomainFailureUnchanged ==
    (Answered /\ resp.kind = "json" /\ IsDomainFailure(resp.v)) =>
        ret = Returned(resp.v)

C9_Witness ==
    /\ Done
    /\ cur.m = "drum_to_cassette"
    /\ cur.a = JNum(5)
    /\ resp = JsonBody(JObj([isSuccess |-> JBool(FALSE), code |-> JNum(509)]))
    /\ ret = Returned(JObj([isSuccess |-> JBool(FALSE), code |-> JNum(509)]))

(* C10: no invocation ends in an exception.  Stated for the failures the  *)
(* claim lists (credentials and device errors, which arrive as failure     *)
(* objects; a body that is not JSON; an unreachable network): an           *)
(* invocation that ended on one of them has returned a value to its        *)
(* caller.  A JSON body that is not an object is left to C7.               *)
C10_NeverRaises ==
    (Done /\ ~(Answered /\ resp.kind = "json" /\ ~IsObject(resp.v))) => ret.kind = "value"

(* C11: a connection failure (refused, unreachable, DNS) ends the call     *)
(* with an exception: the caller gets no envelope, handle_response is not  *)
(* reached (no response, no notification), and the page function that     *)
(* made the call is aborted with st.session_state as it was before the    *)
(* call.                                                                   *)
C11_TransportFailureSurfaces ==
    [][ (pc = "waiting" /\ pc' = "idle" /\ resp' = NoResponse)
          => /\ ret' = Raised("ConnectionError")
             /\ notes' = <<>>
             /\ session_state' = session_state
             /\ (ui.st = "run" => ui'.st = "abort") ]_vars

(* The logout call of the sidebar failed in the connection: the login flag *)
(* is still true.                                                          *)
C11_Witness ==
    /\ ui.h = "sidebar_navigation" /\ ui.st = "abort"
    /\ cur.m = "logout" /\ ~Answered
    /\ ret = Raised("ConnectionError")
    /\ LoggedIn(session_state)

(* C12: handle_response pushes exactly one notification when the body is   *)
(* JSON whose isSuccess is false or absent or when the body is not JSON,   *)
(* and none when isSuccess is truthy.                                      *)
C12_NotifiesExactlyOnFailure ==
    Answered =>
        Len(notes) = (IF resp.kind = "json" /\ SaysSuccess(resp.v) THEN 0 ELSE 1)

C14_LoginCookiesOnEveryLaterRequest ==
    pc = "waiting" =>
        \A i \in 1..Len(wire) : login_cookies \subseteq wire[i].cookies

(* get_machine_info goes out after a login whose answer set a cookie. *)
C14_Witness ==
    /\ pc = "waiting" /\ cur.m = "get_machine_info"
    /\ login_cookies # {}
    /\ Len(wire) = 1 /\ login_cookies \subseteq wire[1].cookies

(* C15: once the login page has logged the user in, every request of the   *)
(* user session, the logout request of the sidebar included, goes out with *)
(* the cookies the server issued at that login.                            *)
C15_EveryRequestCarriesLoginCookies ==
    (pc = "waiting" /\ LoggedIn(session_state))
        => \A i \in 1..Len(wire) : login_issued \subseteq wire[i].cookies

(* The uuid that the data of an envelope carries, JNull when it carries    *)
(* none.                                                                   *)
UuidOf(x) ==
    IF IsObject(x) /\ IsObject(DictGet(x, "data", JNull))
    THEN DictGet(DictGet(x, "data", JNull), "uuid", JNull)
    ELSE JNull

CurrentTransaction == DictGet(session_state, "current_transaction_uuid", JNull)

(* C16: when the payment call of the single-amount section returns a       *)
(* success envelope whose data.uuid is U, the section receives that        *)
(* envelope, U included, and U is stored as the current transaction        *)
(* identifier; the query that the status section then sends for the        *)
(* identifier in its field has the body {"uuid": U}.                       *)
C16_PaymentUuidStoredAndQueried ==
    /\ ( /\ ui.h = "_render_single_amount_payment" /\ ui.st = "end"
         /\ cur.m = "payment" /\ Answered
         /\ resp.kind = "json" /\ SaysSuccess(resp.v) /\ UuidOf(resp.v) # JNull )
       => /\ ret = Returned(resp.v)
          /\ CurrentTransaction = UuidOf(resp.v)
    /\ (ui.h = "_render_transaction_status_section" /\ pc = "waiting")
       => /\ cur = [m |-> "query", a |-> ui.a, b |-> NoArg]
          /\ wire = <<Prepared(base_url, cur, jar)>>
          /\ wire[1].body = JObj([uuid |-> ui.a])

(* The status section queries the identifier that a payment stored. *)
C16_Witness ==
    /\ ui.h = "_render_transaction_status_section" /\ pc = "waiting"
    /\ CurrentTransaction = UuidOf(JObj([data |-> TxData]))
    /\ ui.a = CurrentTransaction
    /\ wire[1].body = JObj([uuid |-> CurrentTransaction])

(* C17: drum_to_cassette checks nothing itself: for every drum_id and pcs, *)
(* those outside the device's range included, it sends the body            *)
(* {drumId, pcs} unchanged, and the envelope the server answers is what it *)
(* returns.                                                                *)
C17_DrumToCassetteUnvalidated ==
    (Invoked /\ cur.m = "drum_to_cassette")
        => /\ Len(wire) = 1
           /\ wire[1].body = JObj([drumId |-> cur.a, pcs |-> cur.b])
           /\ (Answered /\ resp.kind = "json" /\ IsObject(resp.v)) => ret = Returned(resp.v)

(* A drum the device does not have and no banknotes to move: the request   *)
(* went out and the server's refusal came back as it was.                  *)
C17_Witness ==
    /\ cur.m = "drum_to_cassette" /\ cur.a.v > DrumCount /\ cur.b.v = 0
    /\ wire[1].body = JObj([drumId |-> cur.a, pcs |-> cur.b])
    /\ Answered /\ resp.kind = "json" /\ SaysFailure(resp.v)
    /\ DictGet(resp.v, "errorMsg", JNull) = JStr("bad drum")
    /\ ret = Returned(resp.v)

(* C18: the body of door_control holds every door key of door_settings     *)
(* with its value, and "Open Timeout" with the timeout argument (10 when   *)
(* it is omitted), also when door_settings holds an "Open Timeout" of its  *)
(* own.                                                                    *)
C18_OpenTimeoutIsTheArgument ==
    (Invoked /\ cur.m = "door_control")
        => LET body == wire[1].body.v
               doors == DOMAIN cur.a.v \ {"Open Timeout"}
           IN  /\ Len(wire) = 1
               /\ DOMAIN body = doors \cup {"Open Timeout"}
               /\ \A k \in doors : body[k] = cur.a.v[k]
               /\ body["Open Timeout"] = IF cur.b = NoArg THEN JNum(DefaultTimeout) ELSE cur.b

(* door_settings holds an "Open Timeout" of its own and the argument is    *)
(* omitted: the body carries the default.                                  *)
C18_Witness ==
    /\ pc = "waiting" /\ cur.m = "door_control" /\ cur.b = NoArg
    /\ "Open Timeout" \in DOMAIN cur.a.v
    /\ cur.a.v["Open Timeout"] # JNum(DefaultTimeout)
    /\ wire[1].body.v["Open Timeout"] = JNum(DefaultTimeout)
    /\ wire[1].body.v["Note Drum Door"] = cur.a.v["Note Drum Door"]

(* C19: within a user session at most one request is in flight, and the   *)
(* next one is sent only after the one before has ended with a response or *)
(* a transport error.  While a call waits nothing cancels it and nothing   *)
(* else starts: the invocation, its request, the pass and st.session_state *)
(* stay as they are until the call ends with a returned value or an        *)
(* exception.                                                              *)
C19_OneRequestInFlight ==
    /\ [](Len(wire) <= 1 /\ (pc = "waiting" => Len(wire) = 1 /\ ret = NotYet))
    /\ [][ pc = "waiting"
             => /\ cur' = cur /\ wire' = wire
                /\ ui'.h = ui.h /\ ui'.a = ui.a /\ ui'.b = ui.b /\ ui'.pressed = ui.pressed
                /\ pass_log' = pass_log
                /\ pc' = "waiting" => (ret' = ret /\ ui' = ui /\ session_state' = session_state)
                /\ pc' = "idle" => ret'.kind \in {"value", "raised"} ]_vars

(* The dashboard waits for the answer to its second request, sent after    *)
(* the first call returned.                                                *)
C19_Witness ==
    /\ ui.h = "dashboard_page" /\ ui.st = "run" /\ ui.at = 2
    /\ pc = "waiting" /\ Len(wire) = 1
    /\ pass_log = <<"get_status", "get_machine_info">>

(* The calls a page function makes to draw itself, and the call of its     *)
(* button.                                                                 *)
RenderCalls(h) ==
    CASE h = "dashboard_page" -> <<"get_status", "get_machine_info", "get_cash_info">>
      [] h = "_render_door_control_tab" -> <<"get_machine_info">>
      [] OTHER -> <<>>

ButtonCall(h) ==
    CASE h = "sidebar_navigation" -> <<"logout">>
      [] h = "login_page" -> <<"login">>
      [] h = "_render_single_amount_payment" -> <<"payment">>
      [] h = "_render_transaction_status_section" -> <<"query">>
      [] h = "_render_door_control_tab" -> <<"door_control">>
      [] OTHER -> <<>>

(* The fields the handler of the button wants filled are filled. *)
InputsPresent(u, ss) ==
    CASE u.h = "login_page" ->
            Truthy(DictGet(ss, "api_base_url", JNull)) /\ Truthy(u.a) /\ Truthy(u.b)
      [] u.h \in {"_render_single_amount_payment", "_render_transaction_status_section"} ->
            Truthy(u.a)
      [] OTHER -> TRUE

IsPrefix(p, q) == Len(p) <= Len(q) /\ \A i \in 1..Len(p) : p[i] = q[i]

(* C20 as stated: the render pass that handles a button press (with the    *)
(* fields of the button's handler filled) sends exactly one HTTP request.  *)
C20_OneRequestPerPress ==
    (ui.pressed /\ ui.st = "end" /\ InputsPresent(ui, session_state))
        => Len(pass_log) = 1

(* C20, amended: the requests of a render pass are the calls the page      *)
(* function makes to draw itself, in order, followed by at most one call   *)
(* of the pressed button's handler; a pass that ends with the button       *)
(* pressed and the handler's fields filled has sent the handler's one      *)
(* request, unless the read the page draws from failed before the button   *)
(* was reached.                                                            *)
C20_OneRequestPerHandler ==
    /\ IsPrefix(pass_log, RenderCalls(ui.h) \o (IF ui.pressed THEN ButtonCall(ui.h) ELSE <<>>))
    /\ (ui.st = "end" /\ ~ui.pressed) => Len(pass_log) <= Len(RenderCalls(ui.h))
    /\ (ui.st = "end" /\ ui.pressed /\ InputsPresent(ui, session_state))
          => \/ pass_log = RenderCalls(ui.h) \o ButtonCall(ui.h)
             \/ /\ pass_log = RenderCalls(ui.h) /\ pass_log # <<>>
                /\ ret.kind = "value" /\ SaysFailure(ret.v)

(* The door-control tab has handled a press: two requests in the pass. *)
C20_Witness ==
    /\ ui.h = "_render_door_control_tab" /\ ui.pressed /\ ui.st = "end"
    /\ pass_log = <<"get_machine_info", "door_control">>


(* The total that an item list shows, and whether the pass of the list got *)
(* as far as showing it.                                                   *)
RowsOf(u) == u.a.v
TotalShown(u) == total_amount(RowsOf(u))
FailedBeforeCalls == ui.st = "abort" /\ pass_log = <<>> /\ cur = NoInvocation

(* C21: for every text in the quantity and price fields of an item list    *)
(* the pass computes the total, a number, and does not fail doing so.      *)
C21_TotalNeverFails ==
    ui.h \in ItemListFunctions
        => /\ TotalShown(ui).kind = "value"
           /\ ~FailedBeforeCalls

(* A row whose name, quantity and price are all non-empty. *)
AllFilled(item) == item.v.name # JStr("") /\ item.v.pcs # JStr("") /\ item.v.price # JStr("")
FilledRows(u) == SelectSeq(RowsOf(u), AllFilled)

(* C22: a pass of an item list sends a request only when its start button  *)
(* is pressed and some row has name, quantity and price all non-empty; the *)
(* request is one pay (pos_pay on the POS list) whose items are exactly    *)
(* those rows, in their order and as they were typed; the POS list sends   *)
(* nothing while its reference number is empty.                            *)
C22_OnlyFilledItemsSent ==
    ui.h \in ItemListFunctions
        => /\ pass_log # <<>>
                => /\ ui.pressed /\ FilledRows(ui) # <<>>
                   /\ pass_log = <<IF ui.h = "_render_item_list_payment" THEN "pay" ELSE "pos_pay">>
                   /\ Len(wire) = 1
                   /\ wire[1].url = make_url(base_url, ENDPOINTS[EndpointKey(pass_log[1])])
                   /\ wire[1].body.v.items = JList(FilledRows(ui))
                   /\ ui.h = "_render_pos_item_list_payment"
                        => ui.b # JStr("") /\ wire[1].body.v.POS_reference_number = ui.b
           /\ (~ui.pressed \/ FilledRows(ui) = <<>>) => (pass_log = <<>> /\ wire = <<>>)
           /\ (ui.h = "_render_pos_item_list_payment" /\ ui.b = JStr(""))
                => (pass_log = <<>> /\ wire = <<>>)

(* A row with a negative quantity and a price that is no number goes out   *)
(* as typed, and the empty row next to it stays behind.                    *)
C22_Witness ==
    /\ ui.h = "_render_pos_item_list_payment" /\ ui.pressed /\ pc = "waiting"
    /\ Len(RowsOf(ui)) = 2 /\ Len(FilledRows(ui)) = 1
    /\ FilledRows(ui)[1].v.pcs = JStr("-3") /\ FilledRows(ui)[1].v.price = JStr("x")
    /\ wire[1].body.v.items = JList(FilledRows(ui))
    /\ wire[1].body.v.POS_reference_number = JStr("POS-1")


(* The calls that start a payment, and a step in which one of them returns *)
(* an envelope that says success.                                          *)
StartMethods == {"payment", "pay", "pos_pay", "pos_payment"}
StartSucceeds ==
    /\ pc = "waiting" /\ cur.m \in StartMethods
    /\ pc' = "idle" /\ ret'.kind = "value" /\ SaysSuccess(ret'.v)

(* C23: the current transaction identifier is unset at first, becomes the  *)
(* uuid of the response (the empty string when the response carries none)  *)
(* in every step in which payment, pay, pos_pay or pos_payment returns a   *)
(* success envelope, and no other step changes it: not a failed start, and *)
(* not a refill, refund, withdraw, query, cancel, stop or continue.        *)
C23_CurrentIsLastSuccessfulStart ==
    /\ CurrentTransaction = JNull
    /\ [][ IF StartSucceeds
           THEN CurrentTransaction' = IF UuidOf(ret'.v) # JNull THEN UuidOf(ret'.v) ELSE JStr("")
           ELSE CurrentTransaction' = CurrentTransaction ]_vars

(* A refill succeeded after a payment: its identifier went to its own key  *)
(* and the payment's identifier is still the current one.                  *)
C23_Witness ==
    /\ ui.h = "_render_refill_refund_tab" /\ ui.st = "end" /\ cur.m = "refill"
    /\ ret.kind = "value" /\ SaysSuccess(ret.v) /\ UuidOf(ret.v) = JNull
    /\ DictGet(session_state, "current_refill_uuid", JNull) = JStr("")
    /\ CurrentTransaction = JStr("abc-123")


(* The user name kept in session state, and a step in which the login call *)
(* of the login page returns an envelope that says success.                *)
StoredUsername == DictGet(session_state, "username", JNull)
BaseUrlSet == Truthy(DictGet(session_state, "api_base_url", JStr("")))
LoginSucceeds ==
    /\ ui.h = "login_page" /\ pc = "waiting" /\ cur.m = "login"
    /\ pc' = "idle" /\ ret'.kind = "value" /\ SaysSuccess(ret'.v)

C26_LogoutClearsFlag ==
    (ui.h = "sidebar_navigation" /\ ui.pressed)
        => /\ pass_log = <<"logout">>
           /\ Len(wire) = 1
           /\ wire[1].verb = "GET"
           /\ wire[1].url = make_url(DictGet(session_state, "api_base_url", JStr("")).v,
                                     ENDPOINTS["logout"])
           /\ pc = "waiting" => LoggedIn(session_state)
           /\ (pc = "idle" /\ ret.kind = "value") => ~LoggedIn(session_state)

(* The server refused the logout and the user is logged out all the same. *)
C26_Witness ==
    /\ ui.h = "sidebar_navigation" /\ ui.pressed /\ ui.st = "end"
    /\ pass_log = <<"logout">>
    /\ ret.kind = "value" /\ SaysFailure(ret.v)
    /\ ~LoggedIn(session_state)


(* The status requests among the requests of the running pass of a tab. *)
StatusRequests ==
    SelectSeq(pass_log, LAMBDA m : m = StatusMethod(ui.h))

(* C24: a pass of the cash-information, banknote-settings, coin-settings   *)
(* or sensor-status tab sends its status request at most once, whatever    *)
(* the call returns; with the refresh button pressed, the response of the  *)
(* button's call is what session state holds afterwards.                   *)
C24_StatusFetchedOncePerPass ==
    ui.h \in CacheTabs
        => /\ Len(StatusRequests) <= 1
           /\ (ui.pressed /\ ui.st = "end" /\ pass_log = <<StatusMethod(ui.h)>>)
                => Cached(ui.h, session_state) = ret.v

(* C30: a pass without the refresh button sends no status request once a   *)
(* response has been cached, a failure envelope included, and sends one    *)
(* and caches nothing while none has been.                                 *)
C30_CachedResponseReused ==
    (ui.h \in CacheTabs /\ ~ui.pressed)
        => IF CacheKey(ui.h) \in DOMAIN session_state.v
           THEN StatusRequests = <<>>
           ELSE pass_log # <<>> /\ pass_log[1] = StatusMethod(ui.h)


(* The history that session state holds, and the steps of the history page *)
(* that the claims speak of.                                               *)
History == transaction_history(session_state)
OnHistoryPage(u) == u.h = "transaction_history_page"
TrackPressed(u) == OnHistoryPage(u) /\ u.pressed /\ u.b = JStr("add_to_history")
ClearPressed(u) == OnHistoryPage(u) /\ u.pressed /\ u.b = JStr("clear_history")
TrackSucceeds ==
    /\ TrackPressed(ui) /\ pc = "waiting" /\ cur.m = "query"
    /\ pc' = "idle" /\ ret'.kind = "value" /\ SaysSuccess(ret'.v)
PassStarts == ui' # ui /\ ui'.at = 1 /\ pc = "idle"

(* C27: no two records of the history have the same uuid. *)
C27_NoDuplicateUuid ==
    \A i, j \in 1..Len(History) : History[i].v.uuid = History[j].v.uuid => i = j

(* Two transactions are tracked, and a press for the one tracked first     *)
(* added nothing.                                                          *)
C27_Witness ==
    /\ Len(History) = 2
    /\ TrackPressed(ui) /\ ui.st = "end" /\ pass_log = <<>>
    /\ ui.a = History[1].v.uuid /\ ui.a # History[2].v.uuid

(* C28: the history changes in two kinds of step only.  The query of a     *)
(* track press returns a success envelope: one record with the identifier  *)
(* of the field is appended.  A pass starts with the clear button pressed: *)
(* the history becomes empty.  A query that fails leaves the history as it *)
(* is, and a track press sends a request, the query for the identifier of  *)
(* the field, only when the field is not empty and no record has that      *)
(* identifier.                                                             *)
C28_HistoryChangesByTrackOrClear ==
    /\ [][ IF TrackSucceeds
           THEN /\ Len(History') = Len(History) + 1
                /\ SubSeq(History', 1, Len(History)) = History
                /\ History'[Len(History')].v.uuid = ui.a
           ELSE IF PassStarts /\ ClearPressed(ui')
           THEN History' = <<>>
           ELSE History' = History ]_vars
    /\ [][ (PassStarts /\ OnHistoryPage(ui'))
             => IF TrackPressed(ui') /\ ui'.a # JStr("") /\ ui'.a \notin HistoryUuids(session_state)
                THEN /\ pass_log' = <<"query">> /\ Len(wire') = 1
                     /\ wire'[1].body = JObj([uuid |-> ui'.a])
                ELSE pass_log' = <<>> /\ wire' = <<>> ]_vars

(* The query for a second transaction failed: the history still holds the  *)
(* first one only.                                                         *)
C28_Witness ==
    /\ TrackPressed(ui) /\ ui.st = "end" /\ pass_log = <<"query">>
    /\ ret.kind = "value" /\ SaysFailure(ret.v)
    /\ Len(History) = 1 /\ History[1].v.uuid # ui.a

(* C29: a record stays as it was written until the history is cleared: no  *)
(* step changes or moves a record, a track press for an identifier that    *)
(* has a record sends no query, and so the record keeps the status of the  *)
(* first query.                                                            *)
C29_RecordsNeverUpdated ==
    /\ [][ \/ History' = <<>>
           \/ \A i \in 1..Len(History) : Len(History') >= i /\ History'[i] = History[i] ]_vars
    /\ []( (TrackPressed(ui) /\ pass_log # <<>> /\ pc = "waiting")
             => (cur.m = "query" /\ cur.a = ui.a /\ ui.a \notin HistoryUuids(session_state)) )

(* The record says the transaction is in progress, and a later press for   *)
(* the same identifier asked the server nothing.                           *)
C29_Witness ==
    /\ Len(History) = 1 /\ History[1].v.status = JStr("in progress")
    /\ TrackPressed(ui) /\ ui.a = History[1].v.uuid
    /\ ui.st = "end" /\ pass_log = <<>> /\ wire = <<>>

====
